---- MODULE Spec2Model ----
(***************************************************************************)
(* A model of distkeras/trainers.py: the Trainer timing bookkeeping, the   *)
(* parameter-server service lifecycle of DistributedTrainer (service,      *)
(* start_service, stop_service) and the train() orchestration of           *)
(* DistributedTrainer and AsynchronousDistributedTrainer.                  *)
(*                                                                         *)
(* The orchestrator (the thread that calls the trainer's public methods)   *)
(* is one sequential process whose position is pc; every service thread    *)
(* created by start_service is a process of its own, interleaved with it.  *)
(* The parameter-server classes (distkeras.parameter_servers) and the      *)
(* dataset engine are collaborators whose code is not in trainers.py.      *)
(***************************************************************************)
EXTENDS Integers, Sequences, FiniteSets, TLC

(* ------------------------------ bounds -------------------------------- *)

\* Largest num_workers a trainer is constructed with.
MaxWorkers == 2
\* Largest num_epoch a trainer is constructed with.
MaxEpoch == 2
\* Largest partition count of the caller's dataset.
MaxPartitions == 3
\* Largest value given to set_parallelism_factor.
MaxFactor == 2
\* Number of train / start_service / stop_service calls in one behaviour.
MaxCalls == 3
\* Largest value the clock reaches.
MaxClock == 3

(* ------------------------- program constants -------------------------- *)

\* AsynchronousDistributedTrainer.__init__: self.parallelism_factor = 2
DefaultParallelismFactor == 2

\* Python's None, for parameter_server and parameter_server_thread.
None == 0

VARIABLES
    kind,                    \* which train() the trainer's class inherits
    num_workers,             \* self.num_workers
    num_epoch,               \* self.num_epoch
    parallelism_factor,      \* self.parallelism_factor
    dataset,                 \* partition count of the caller's dataframe
    stopIsSticky,            \* parameter-server variant: does a stop survive initialize()/run()
    master_model,            \* self.master_model
    loss,                    \* self.loss
    worker_optimizer,        \* self.worker_optimizer
    history,                 \* self.history
    got,                     \* what the last get_history() returned
    had,                     \* what the last has_history() returned
    returned_model,          \* the model the last SingleTrainer.train() returned
    seeds,                   \* the models the workers of the current SingleTrainer.train() got
    modelAtCall,             \* self.master_model when the current SingleTrainer.train() began
    parameter_server,        \* self.parameter_server: None or an index of servers
    parameter_server_thread, \* self.parameter_server_thread: None or an index of threads
    servers,                 \* every parameter server allocated so far
    threads,                 \* every service thread created so far
    pc,                      \* position of the orchestrator
    op,                      \* the public method being (or last) executed
    shuffle,                 \* train()'s shuffle argument
    partitions,              \* partition count of train()'s local dataframe
    i,                       \* train()'s loop variable
    parallelism,             \* train()'s target partition count
    pending,                 \* number of partitions of the current round whose worker
                             \* function has not completed (the partitions are interchangeable)
    rounds,                  \* rounds dispatched by the current train() call
    invocations,             \* worker-function invocations of the current train() call
    error,                   \* the exception the last call ended with
    result,                  \* the server whose model the last train() returned
    allocated,               \* the server allocated by the current train() call
    adjustments,             \* the coalesce / repartition calls of the current train() call
    runUpdates,              \* updates the workers of the current train() call delivered
    earlierUpdates,          \* some earlier train() call's server applied an update
    joined,                  \* the thread the last stop_service() joined
    calls,                   \* number of train/start_service/stop_service calls so far
    now,                     \* the clock
    training_time_start,     \* self.training_time_start
    training_time_end,       \* self.training_time_end
    training_time,           \* self.training_time
    inSession,               \* a record_training_start() has no record_training_end() yet
    sessStart,               \* clock value read by the latest record_training_start()
    sessEnd,                 \* clock value read by the latest matching record_training_end()
    matched,                 \* the latest record_training_* call ended a started session
    lastElapsed,             \* elapsed time of the most recently completed session
    prevElapsed,             \* elapsed time of the session completed before that one
    completed                \* number of sessions completed (counted up to 2)

config == <<kind, num_workers, num_epoch, dataset, stopIsSticky>>
service == <<parameter_server, parameter_server_thread, servers, threads>>
locals == <<shuffle, parallelism, partitions, i, pending, rounds, invocations, allocated,
            adjustments, runUpdates, earlierUpdates>>
outcome == <<error, result, joined>>
timing == <<now, training_time_start, training_time_end, training_time,
            inSession, sessStart, sessEnd, matched, lastElapsed, prevElapsed,
            completed>>
fields == <<master_model, loss, worker_optimizer>>
records == <<history, got, had>>
single == <<returned_model, seeds, modelAtCall>>
attrs == <<fields, records, single>>
vars == <<config, attrs, parallelism_factor, service, pc, op, locals, outcome, calls, timing>>

Min(a, b) == IF a < b THEN a ELSE b

(* ------------------------------ Trainer ------------------------------- *)

\* The constructor's arguments.
KerasModel == [weights |-> 1]
LossArg == "categorical_crossentropy"
OptimizerArg == "adagrad"

\* No model (train() has returned none).
NoModel == [weights |-> 0]

\* serialize_keras_model / deserialize_keras_model (distkeras.utils)
serialize_keras_model(m) == [bytes |-> m.weights]
deserialize_keras_model(s) == [weights |-> s.bytes]

DistributedKinds == {"DistributedTrainer", "AsynchronousDistributedTrainer"}

\* time.time(): the clock's current value.
Time == now

\* record_training_start: self.training_time = 0
TimeAtStartKept(old) == old
TimeAtStart(old) == 0

\* record_training_end: self.training_time_end - self.training_time_start
ElapsedSwapped(end, start) == start - end
Elapsed(end, start) == end - start

\* get_training_time()
get_training_time == training_time

record_training_start ==
    /\ training_time' = TimeAtStart(training_time)
    /\ training_time_start' = Time
    /\ inSession' = TRUE
    /\ sessStart' = now
    /\ matched' = FALSE
    /\ UNCHANGED <<now, training_time_end, sessEnd, lastElapsed, prevElapsed, completed>>

record_training_end ==
    /\ training_time_end' = Time
    /\ training_time' = Elapsed(Time, training_time_start)
    /\ inSession' = FALSE
    /\ matched' = inSession
    /\ sessEnd' = IF inSession THEN now ELSE sessEnd
    /\ lastElapsed' = IF inSession THEN now - sessStart ELSE lastElapsed
    /\ prevElapsed' = IF inSession THEN lastElapsed ELSE prevElapsed
    /\ completed' = IF inSession THEN Min(completed + 1, 2) ELSE completed
    /\ UNCHANGED <<now, training_time_start, sessStart>>

(* ------------------------- parameter server --------------------------- *)

\* A freshly allocated parameter server: no stop requested, no update applied.
NewServerInheritsUpdates ==
    [stopped |-> FALSE,
     updates |-> IF parameter_server = None THEN 0 ELSE servers[parameter_server].updates]
NewServer == [stopped |-> FALSE, updates |-> 0]

\* ParameterServer.stop(): request the run loop to end.
ServerStop(s) == [servers EXCEPT ![s].stopped = TRUE]

\* ParameterServer.initialize() and the entry of run(): a variant that sets
\* its running flag there forgets a stop requested earlier.
ServerEnter(s) ==
    IF stopIsSticky THEN servers ELSE [servers EXCEPT ![s].stopped = FALSE]

(* --------------------------- service thread --------------------------- *)

Alive(t) == threads[t].pc # "dead"
AliveThreads == {t \in DOMAIN threads : Alive(t)}

\* Thread.join(): returns once the thread has terminated.
ThreadJoinedNoWait(t) == TRUE
ThreadJoined(t) == ~Alive(t)

\* service(): self.parameter_server.initialize()
ServiceInitialize(t) ==
    /\ threads[t].pc = "initialize"
    /\ IF parameter_server = None
       THEN \* AttributeError ends the thread
            /\ threads' = [threads EXCEPT ![t].pc = "dead"]
            /\ UNCHANGED servers
       ELSE /\ servers' = ServerEnter(parameter_server)
            /\ threads' = [threads EXCEPT ![t].pc = "run"]
    /\ UNCHANGED <<config, attrs, parallelism_factor, parameter_server, parameter_server_thread,
                   pc, op, locals, outcome, calls, timing>>

\* service(): self.parameter_server.run() is entered
ServiceRun(t) ==
    /\ threads[t].pc = "run"
    /\ servers' = ServerEnter(parameter_server)
    /\ threads' = [threads EXCEPT ![t] = [pc |-> "serving", ps |-> parameter_server]]
    /\ UNCHANGED <<config, attrs, parallelism_factor, parameter_server, parameter_server_thread,
                   pc, op, locals, outcome, calls, timing>>

\* run() returns once its server has been stopped, and the thread ends.
ServiceExit(t) ==
    /\ threads[t].pc = "serving"
    /\ servers[threads[t].ps].stopped
    /\ threads' = [threads EXCEPT ![t].pc = "dead"]
    /\ UNCHANGED <<config, attrs, parallelism_factor, parameter_server, parameter_server_thread,
                   servers, pc, op, locals, outcome, calls, timing>>

\* The parameter servers that are inside run(), listening at the endpoint.
ServingServers == {threads[t].ps : t \in {u \in DOMAIN threads : threads[u].pc = "serving"}}

\* A worker's update is applied by the server that is listening.
DeliverUpdate ==
    [s \in DOMAIN servers |->
        IF s \in ServingServers
        THEN [servers[s] EXCEPT !.updates = @ + 1]
        ELSE servers[s]]

\* num_updates(): self.parameter_server.num_updates()
num_updates == servers[parameter_server].updates

\* The reassignment of self.parameter_server drops the trainer's reference to
\* the previous server: unless a live thread still runs it, the object and
\* its counter are gone.
Released ==
    [s \in DOMAIN servers |->
        IF s \in {threads[t].ps : t \in AliveThreads}
        THEN servers[s]
        ELSE [servers[s] EXCEPT !.updates = 0]]

(* ---------------------------- orchestrator ---------------------------- *)

\* No public method is executing.
Idle == pc \in {"idle", "returned", "raised"}

\* train()'s locals do not outlive the call: another method leaves none.
NoLocals ==
    /\ shuffle' = FALSE
    /\ parallelism' = 0
    /\ partitions' = 0
    /\ i' = 0
    /\ pending' = 0
    /\ rounds' = 0
    /\ invocations' = 0
    /\ allocated' = None
    /\ adjustments' = <<>>
    /\ runUpdates' = 0
    /\ UNCHANGED earlierUpdates

\* start_service, line 154-155: a new thread, started.
SpawnThread ==
    /\ threads' = Append(threads, [pc |-> "initialize", ps |-> None])
    /\ parameter_server_thread' = Len(threads) + 1

\* start_service, up to the join inside stop_service or to the started thread.
StartServiceBody(next) ==
    IF parameter_server_thread # None
    THEN IF parameter_server = None
         THEN \* stop_service: None.stop() raises AttributeError
              /\ pc' = "raised"
              /\ error' = "AttributeError"
              /\ UNCHANGED <<service, result, joined>>
         ELSE /\ servers' = ServerStop(parameter_server)
              /\ pc' = "join_start"
              /\ joined' = parameter_server_thread
              /\ UNCHANGED <<parameter_server, parameter_server_thread, threads,
                             error, result>>
    ELSE /\ SpawnThread
         /\ pc' = next
         /\ UNCHANGED <<parameter_server, servers, outcome>>

\* start_service() called by the user.
StartService ==
    /\ Idle
    /\ kind \in DistributedKinds
    /\ calls < MaxCalls
    /\ calls' = calls + 1
    /\ op' = "start_service"
    /\ StartServiceBody("returned")
    /\ NoLocals
    /\ UNCHANGED <<config, attrs, parallelism_factor, timing>>

\* stop_service, line 145 with parameter_server_thread None: None.join()
\* raises AttributeError and the call ends.
JoinNoneSilently == "returned"
JoinNone == "raised"

\* stop_service() called by the user, up to the join.
StopService ==
    /\ Idle
    /\ kind \in DistributedKinds
    /\ calls < MaxCalls
    /\ calls' = calls + 1
    /\ op' = "stop_service"
    /\ IF parameter_server = None
       THEN /\ pc' = "raised"
            /\ error' = "AttributeError"
            /\ UNCHANGED <<servers, joined>>
       ELSE /\ servers' = ServerStop(parameter_server)
            /\ IF parameter_server_thread = None
               THEN \* None.join() raises AttributeError
                    /\ pc' = JoinNone
                    /\ error' = "AttributeError"
                    /\ UNCHANGED joined
               ELSE /\ pc' = "join_stop"
                    /\ joined' = parameter_server_thread
                    /\ UNCHANGED error
    /\ NoLocals
    /\ UNCHANGED <<config, attrs, parallelism_factor, parameter_server, parameter_server_thread,
                   threads, result, timing>>

\* stop_service, line 145-146: the join returns and the handle is cleared.
Join ==
    /\ pc \in {"join_start", "join_stop", "join_train"}
    /\ ThreadJoined(parameter_server_thread)
    /\ parameter_server_thread' = None
    /\ pc' = CASE pc = "join_start" -> "spawn"
               [] pc = "join_stop" -> "returned"
               [] pc = "join_train" -> "get_model"
    /\ UNCHANGED <<config, attrs, parallelism_factor, parameter_server, servers, threads,
                   op, locals, outcome, calls, timing>>

\* start_service, line 154-155, after the stop_service it called returned.
Spawn ==
    /\ pc = "spawn"
    /\ SpawnThread
    /\ pc' = IF op = "train" THEN "prepare" ELSE "returned"
    /\ UNCHANGED <<config, attrs, parallelism_factor, parameter_server, servers,
                   op, locals, outcome, calls, timing>>

\* set_parallelism_factor(factor)
SetParallelismFactor(factor) ==
    /\ Idle
    /\ kind = "AsynchronousDistributedTrainer"
    /\ parallelism_factor' = factor
    /\ UNCHANGED <<config, attrs, service, pc, op, locals, outcome, calls,
                   timing>>

(* ------------------------------ train() ------------------------------- *)

\* parallelism = self.parallelism_factor * self.num_workers; the base
\* DistributedTrainer.train uses self.num_workers.
ParallelismUnscaled == num_workers
Parallelism ==
    IF kind = "AsynchronousDistributedTrainer"
    THEN parallelism_factor * num_workers
    ELSE num_workers

\* dataframe.coalesce(n) never increases the partition count.
Coalesce(p, n) == Min(p, n)
\* dataframe.repartition(n) yields exactly n partitions.
Repartition(p, n) == n

\* if num_partitions > parallelism
NeedsCoalesceFlipped(p, target) == p < target
NeedsCoalesce(p, target) == p > target

Adjust(p, target) ==
    IF NeedsCoalesce(p, target) THEN Coalesce(p, target) ELSE Repartition(p, target)

\* Which of the two train() calls on the dataframe.
AdjustCall(p, target) ==
    IF NeedsCoalesce(p, target) THEN "coalesce" ELSE "repartition"

\* for i in range(0, self.num_epoch)
LoopContinuesOneMore(k) == k <= num_epoch
LoopContinues(k) == k < num_epoch

\* train(dataframe, shuffle): the parameter server is allocated.
Train(sh) ==
    /\ Idle
    /\ kind \in DistributedKinds
    /\ calls < MaxCalls
    /\ calls' = calls + 1
    /\ op' = "train"
    /\ shuffle' = sh
    /\ servers' = Append(Released, NewServer)
    /\ earlierUpdates' = (earlierUpdates \/ (parameter_server # None /\ num_updates > 0))
    /\ parameter_server' = Len(servers) + 1
    /\ allocated' = Len(servers) + 1
    /\ pc' = "start_service"
    /\ parallelism' = 0
    /\ partitions' = 0
    /\ i' = 0
    /\ pending' = 0
    /\ rounds' = 0
    /\ invocations' = 0
    /\ adjustments' = <<>>
    /\ runUpdates' = 0
    /\ UNCHANGED <<config, attrs, parallelism_factor, parameter_server_thread, threads,
                   outcome, timing>>

\* train(): self.start_service()
TrainStartService ==
    /\ pc = "start_service"
    /\ StartServiceBody("prepare")
    /\ UNCHANGED <<config, attrs, parallelism_factor, op, locals, calls, timing>>

\* train(): the worker is allocated, the dataframe is shuffled and adjusted,
\* and the training start is recorded.
TrainPrepare ==
    /\ pc = "prepare"
    /\ IF shuffle
       THEN \* shuffle(dataframe) calls the bool argument: TypeError
            /\ pc' = "raised"
            /\ error' = "TypeError"
            /\ UNCHANGED <<parallelism, partitions, adjustments, timing>>
       ELSE /\ parallelism' = Parallelism
            /\ partitions' = Adjust(dataset, Parallelism)
            /\ adjustments' = Append(adjustments, AdjustCall(dataset, Parallelism))
            /\ record_training_start
            /\ pc' = "epoch"
            /\ UNCHANGED error
    /\ UNCHANGED <<config, attrs, parallelism_factor, service, op, shuffle, i, pending, rounds,
                   invocations, allocated, runUpdates, earlierUpdates, result, joined,
                   calls>>

\* train(): one round is dispatched over all partitions.
EpochDispatch ==
    /\ pc = "epoch"
    /\ LoopContinues(i)
    /\ pending' = partitions
    /\ rounds' = rounds + 1
    /\ pc' = "collect"
    /\ UNCHANGED <<config, attrs, parallelism_factor, service, op, shuffle, parallelism,
                   partitions, i, invocations, allocated, adjustments, runUpdates,
                   earlierUpdates, outcome, calls, timing>>

\* worker.train on one partition of the round completes: it has pushed an
\* update to the parameter server that listens at the trainer's endpoint.
\* With no server listening the worker cannot complete (it fails, WorkerRaise,
\* or is still waiting for the endpoint).
WorkerTrain ==
    /\ pc = "collect"
    /\ pending > 0
    /\ pending' = pending - 1
    /\ invocations' = invocations + 1
    /\ ServingServers # {}
    /\ servers' = DeliverUpdate
    /\ runUpdates' = runUpdates + 1
    /\ UNCHANGED <<config, attrs, parallelism_factor, parameter_server, parameter_server_thread,
                   threads, pc, op, shuffle, parallelism, partitions, i, rounds, allocated,
                   adjustments, earlierUpdates, outcome, calls, timing>>

\* worker.train on one partition of the round raises: collect() raises in train().
WorkerRaise ==
    /\ pc = "collect"
    /\ pending > 0
    /\ pc' = "raised"
    /\ error' = "WorkerError"
    /\ UNCHANGED <<config, attrs, parallelism_factor, service, op, locals, result, joined,
                   calls, timing>>

\* collect() returns: every partition's result is in.
EpochCollect ==
    /\ pc = "collect"
    /\ pending = 0
    /\ i' = i + 1
    /\ pc' = "epoch"
    /\ UNCHANGED <<config, attrs, parallelism_factor, service, op, shuffle, parallelism,
                   partitions, pending, rounds, invocations, allocated, adjustments,
                   runUpdates, earlierUpdates, outcome, calls, timing>>

\* train(): the loop is over; the training end is recorded and stop_service
\* requests the stop.
TrainEnd ==
    /\ pc = "epoch"
    /\ ~LoopContinues(i)
    /\ record_training_end
    /\ servers' = ServerStop(parameter_server)
    /\ joined' = parameter_server_thread
    /\ pc' = "join_train"
    /\ UNCHANGED <<config, attrs, parallelism_factor, parameter_server, parameter_server_thread,
                   threads, op, locals, error, result, calls>>

\* train(): return self.parameter_server.get_model()
GetModel ==
    /\ pc = "get_model"
    /\ result' = parameter_server
    /\ pc' = "returned"
    /\ UNCHANGED <<config, attrs, parallelism_factor, service, op, locals, error, joined,
                   calls, timing>>

(* ------------------------ timing, called directly --------------------- *)

\* The clock advances.
Tick ==
    /\ now < MaxClock
    /\ now' = now + 1
    /\ UNCHANGED <<config, attrs, parallelism_factor, service, pc, op, locals, outcome, calls,
                   training_time_start, training_time_end, training_time,
                   inSession, sessStart, sessEnd, matched, lastElapsed, prevElapsed,
                   completed>>

\* record_training_start() called by the user.
RecordTrainingStart ==
    /\ Idle
    /\ record_training_start
    /\ UNCHANGED <<config, attrs, parallelism_factor, service, pc, op, locals, outcome, calls>>

\* record_training_end() called by the user.
RecordTrainingEnd ==
    /\ Idle
    /\ record_training_end
    /\ UNCHANGED <<config, attrs, parallelism_factor, service, pc, op, locals, outcome, calls>>

(* --------------------------- specifications --------------------------- *)

\* What holds right after construction, whatever the constructor's arguments.
Constructed ==
    /\ master_model = serialize_keras_model(KerasModel)
    /\ loss = LossArg
    /\ worker_optimizer = OptimizerArg
    /\ history = <<>>
    /\ got = <<>>
    /\ had = FALSE
    /\ returned_model = NoModel
    /\ seeds = <<>>
    /\ modelAtCall = serialize_keras_model(KerasModel)
    /\ parallelism_factor = DefaultParallelismFactor
    /\ parameter_server = None
    /\ parameter_server_thread = None
    /\ servers = <<>>
    /\ threads = <<>>
    /\ pc = "idle"
    /\ op = "none"
    /\ shuffle = FALSE
    /\ parallelism = 0
    /\ partitions = 0
    /\ i = 0
    /\ pending = 0
    /\ rounds = 0
    /\ invocations = 0
    /\ error = "none"
    /\ result = None
    /\ allocated = None
    /\ adjustments = <<>>
    /\ runUpdates = 0
    /\ earlierUpdates = FALSE
    /\ joined = None
    /\ calls = 0
    /\ now = 0
    /\ training_time_start = 0
    /\ training_time_end = 0
    /\ training_time = 0
    /\ inSession = FALSE
    /\ sessStart = 0
    /\ sessEnd = 0
    /\ matched = FALSE
    /\ lastElapsed = 0
    /\ prevElapsed = 0
    /\ completed = 0

\* A trainer of a class that provides allocate_parameter_server and
\* allocate_worker (the two base classes raise NotImplementedError there) and
\* inherits train() from DistributedTrainer or from
\* AsynchronousDistributedTrainer (DOWNPOUR, DOWNPOURSocket, AEASGD, EAMSGD),
\* together with the dataset its caller trains it on.
Init ==
    /\ kind \in {"DistributedTrainer", "AsynchronousDistributedTrainer"}
    /\ num_workers \in 1..MaxWorkers
    /\ num_epoch \in 0..MaxEpoch
    /\ dataset \in 1..MaxPartitions
    /\ stopIsSticky \in BOOLEAN
    /\ Constructed

\* The service lifecycle and train(), without set_parallelism_factor.
NextLifecycle ==
    \/ \E sh \in BOOLEAN : Train(sh)
    \/ TrainStartService
    \/ TrainPrepare
    \/ EpochDispatch
    \/ WorkerTrain
    \/ WorkerRaise
    \/ EpochCollect
    \/ TrainEnd
    \/ GetModel
    \/ StartService
    \/ StopService
    \/ Join
    \/ Spawn
    \/ \E t \in DOMAIN threads : ServiceInitialize(t)
    \/ \E t \in DOMAIN threads : ServiceRun(t)
    \/ \E t \in DOMAIN threads : ServiceExit(t)

Next ==
    \/ NextLifecycle
    \/ \E f \in 1..MaxFactor : SetParallelismFactor(f)

\* The lifecycle and train() of the distributed trainers, under a clock that
\* stands still.
Spec == Init /\ [][Next]_vars

\* The same with parameter servers that never lose a stop request.
InitSticky == Init /\ stopIsSticky

SpecSticky == InitSticky /\ [][Next]_vars

\* The scenario of a DOWNPOUR trainer built with num_workers = 4 and defaults
\* otherwise, on a dataset of 10 partitions.
InitDownpour ==
    /\ kind = "AsynchronousDistributedTrainer"
    /\ num_workers = 4
    /\ num_epoch = 1
    /\ dataset = 10
    /\ stopIsSticky \in BOOLEAN
    /\ Constructed

SpecDownpour == InitDownpour /\ [][NextLifecycle]_vars

\* The timing operations called in any order under an advancing clock;
\* train() calls them in one of these orders.
NextTime ==
    \/ Tick
    \/ RecordTrainingStart
    \/ RecordTrainingEnd

SpecTime == Init /\ [][NextTime]_vars

(* ------------------------------- claims ------------------------------- *)

\* C1: at most one service thread of the trainer is alive at any time,
\* whatever train(), start_service() and stop_service() calls came before:
\* a thread is only ever started once the existing one has terminated.
AtMostOneServiceThread == Cardinality(AliveThreads) <= 1

\* C1 witness: start_service found a thread that had entered run(), stopped
\* and joined it, and has started its successor, which is alive.
RestartedService ==
    /\ Len(threads) >= 2
    /\ joined = Len(threads) - 1
    /\ parameter_server_thread = Len(threads)
    /\ Alive(Len(threads))
    /\ ~Alive(joined)
    /\ threads[joined].ps # None

\* C2, as claimed: when train() ends with a worker's failure, no service
\* thread of the trainer is alive.
FailedTrainLeavesNoThread ==
    (op = "train" /\ pc = "raised" /\ error = "WorkerError") => AliveThreads = {}

\* The state right after a stop_service() has returned: to its caller
\* start_service, to its caller train, or to the user.
StopServiceReturned ==
    \/ pc \in {"spawn", "get_model"}
    \/ pc = "returned" /\ op = "stop_service"

\* C3: right after stop_service() returns, the thread it joined is no
\* longer alive and parameter_server_thread is None.
StopServiceJoinsThread ==
    StopServiceReturned => (parameter_server_thread = None /\ ~Alive(joined))

\* C3 witness: stop_service() called by the user returned after joining a
\* thread that had entered run().
StoppedServingThread ==
    /\ pc = "returned"
    /\ op = "stop_service"
    /\ threads[joined].ps # None

\* The train() call has left its epoch loop without a failure.
TrainLoopDone == op = "train" /\ pc \in {"join_train", "get_model", "returned"}

\* C4: a train() call that completes dispatches exactly num_epoch rounds, and
\* a round is dispatched only when every partition of every earlier round has
\* completed and been collected.
EpochRoundsSequential ==
    op = "train" =>
        /\ pc = "epoch" => (rounds = i /\ pending = 0)
        /\ pc = "collect" => rounds = i + 1
        /\ pc \in {"epoch", "collect"} => invocations + pending = rounds * partitions
        /\ TrainLoopDone => (rounds = num_epoch /\ invocations = num_epoch * partitions)

\* C4 witness: a train() call returned after two rounds over several partitions.
TwoRoundsTrained ==
    /\ op = "train"
    /\ pc = "returned"
    /\ num_epoch = 2
    /\ rounds = 2
    /\ partitions >= 2
    /\ invocations = 2 * partitions

\* The parallelism factor F of the trainer: 1 for the base DistributedTrainer.
FactorOfTrainer ==
    IF kind = "AsynchronousDistributedTrainer" THEN parallelism_factor ELSE 1

\* C5: from record_training_start() on, the dataframe the epochs run on has
\* exactly num_workers * F partitions, whatever the original partition count.
EpochsRunOnTargetPartitions ==
    (op = "train" /\ pc \in {"epoch", "collect"}) =>
        partitions = num_workers * FactorOfTrainer

\* C5 witness: the training start was recorded for a dataset that had more
\* partitions than the target, under a scaled trainer.
CoalescedToTarget ==
    /\ op = "train"
    /\ pc = "epoch"
    /\ i = 0
    /\ inSession
    /\ kind = "AsynchronousDistributedTrainer"
    /\ dataset > num_workers * parallelism_factor
    /\ partitions = num_workers * parallelism_factor

\* C6, as claimed: the DOWNPOUR trainer with num_workers = 4 on 10 partitions
\* coalesces to 4 partitions and invokes the worker function 4 times.
DownpourRunsFourWorkers ==
    (op = "train" /\ pc = "returned") => (partitions = 4 /\ invocations = 4)

\* C6, amended: that trainer coalesces the dataset to 8 partitions (4 workers
\* times the default parallelism factor 2) and invokes the worker function
\* 8 times in its one epoch.
DownpourRunsEightWorkers ==
    (op = "train" /\ pc = "returned") =>
        (parallelism = 8 /\ partitions = 8 /\ rounds = 1 /\ invocations = 8)

\* C6 witness: the scenario's train() call returned.
DownpourTrained ==
    /\ op = "train"
    /\ pc = "returned"
    /\ dataset = 10
    /\ num_workers = 4
    /\ partitions = 8
    /\ invocations = 8

\* C7: get_model() is called only once stop_service() has completed and no
\* service thread is alive, and train() returns the model of the parameter
\* server that this call allocated.
ModelReadAfterStop ==
    /\ pc = "get_model" =>
           /\ parameter_server_thread = None
           /\ AliveThreads = {}
           /\ parameter_server = allocated
    /\ (op = "train" /\ pc = "returned") =>
           /\ result = allocated
           /\ result = Len(servers)
           /\ servers[result].stopped

\* C7 witness: the second train() call of a trainer returned its own
\* server's model.
SecondTrainReturned ==
    /\ op = "train"
    /\ pc = "returned"
    /\ Len(servers) = 2
    /\ result = 2

\* C8, as claimed: train(dataset, shuffle=True) does not end with an error
\* raised by the shuffle step.
ShuffleRaisesNothing ==
    (op = "train" /\ shuffle /\ pc = "raised") => error # "TypeError"

\* C9: between a record_training_start() and its record_training_end()
\* get_training_time() is 0, whatever an earlier session recorded; right
\* after the matching record_training_end() it is that session's end time
\* minus that session's start time, which is not negative.
TrainingTimeOfSession ==
    /\ inSession => get_training_time = 0
    /\ matched => (get_training_time = sessEnd - sessStart /\ get_training_time >= 0)

\* C9 witness: a second session, started later than the first ended, has
\* ended after a positive time that differs from the first session's.
SecondSessionTimed ==
    /\ matched
    /\ completed = 2
    /\ prevElapsed > 0
    /\ get_training_time # prevElapsed
    /\ sessEnd > sessStart
    /\ get_training_time = sessEnd - sessStart

\* C10, as claimed: once a session has completed, get_training_time() is the
\* elapsed time of the most recently completed session, also while a later
\* session has been started and not yet ended.
TimeOfLastCompletedSession ==
    (completed >= 1 /\ (inSession \/ matched)) => get_training_time = lastElapsed

\* C10, amended: once a session has completed, get_training_time() is the
\* elapsed time of the most recently completed session until the next
\* record_training_start(); from then until that session's end it is 0.
TimeOfLastCompletedSessionUntilStart ==
    completed >= 1 =>
        /\ matched => get_training_time = lastElapsed
        /\ inSession => get_training_time = 0

\* C10 witness: a session that took a positive time has completed and a
\* later session has been started and not yet ended.
LaterSessionStarted ==
    /\ completed >= 1
    /\ lastElapsed > 0
    /\ inSession
    /\ get_training_time = 0

\* C13: stop_service() called while parameter_server_thread is None (no
\* train() yet, or the service already stopped) ends with an error and never
\* returns normally; no thread is created or joined by it.
StopWithoutServiceFails ==
    [][(op' = "stop_service" /\ calls' = calls + 1 /\ parameter_server_thread = None)
           => (pc' = "raised" /\ error' = "AttributeError"
               /\ parameter_server_thread' = None /\ threads' = threads)]_vars

\* C13 witness: stop_service() was called after a train() call had stopped
\* its service, and it raised.
StoppedTwice ==
    /\ op = "stop_service"
    /\ pc = "raised"
    /\ error = "AttributeError"
    /\ parameter_server # None
    /\ parameter_server_thread = None
    /\ Len(threads) >= 1

\* C16, as claimed: while start_service waits for the thread it found, the
\* stop has been delivered to the parameter server that thread is running.
StopReachesRunningServer ==
    (pc = "join_start" /\ threads[joined].pc = "serving")
        => servers[threads[joined].ps].stopped

\* The steps the orchestrator and the service threads take by themselves
\* inside a train() call.
TrainCanStep ==
    \/ ENABLED TrainStartService
    \/ ENABLED TrainPrepare
    \/ ENABLED EpochDispatch
    \/ ENABLED WorkerTrain
    \/ ENABLED EpochCollect
    \/ ENABLED TrainEnd
    \/ ENABLED Join
    \/ ENABLED Spawn
    \/ ENABLED GetModel
    \/ \E t \in DOMAIN threads :
           ENABLED ServiceInitialize(t) \/ ENABLED ServiceRun(t) \/ ENABLED ServiceExit(t)

\* C19, as claimed: a train() call whose workers do not fail always has a
\* next step until it has returned, so that under fair scheduling it returns:
\* it is never blocked for ever.
TrainNeverBlocks ==
    (op = "train" /\ ~Idle) => TrainCanStep

\* C20, as claimed: while worker functions of a round are executing, the
\* service thread has completed initialize() and entered run().
WorkersRunAfterServerRuns ==
    (op = "train" /\ pc = "collect" /\ pending > 0)
        => \E t \in DOMAIN threads : threads[t].pc = "serving"

\* C14: from the start of the second (or a later) train() call on,
\* num_updates() is the number of updates the workers of that call have
\* delivered: it starts at 0 and contains no update of an earlier run.
UpdatesOfLatestRunOnly ==
    (op = "train" /\ Len(servers) >= 2) =>
        /\ parameter_server = allocated
        /\ num_updates = runUpdates
        /\ num_updates <= invocations

\* C14 witness: an earlier run applied updates, and the current run has
\* applied one update so far.
SecondRunCounted ==
    /\ op = "train"
    /\ Len(servers) >= 2
    /\ earlierUpdates
    /\ num_updates = 1
    /\ invocations = 1

\* C17, as claimed: every distributed train() call that has passed its
\* adjustment or ended has made exactly one call, coalesce when the caller's
\* partition count exceeds the target and repartition otherwise.
OneAdjustmentPerTrain ==
    (op = "train" /\ pc \in {"epoch", "collect", "join_train", "get_model",
                            "returned", "raised"}) =>
        adjustments = <<IF dataset > Parallelism THEN "coalesce" ELSE "repartition">>

(* ----------------------- ModelAveragingTrainer ------------------------ *)

\* dataframe.repartition(self.num_workers * 10)
AveragingPartitionsUnscaled(n) == n
AveragingPartitions(n) == n * 10

\* ModelAveragingTrainer.train(dataframe, shuffle): the whole call. With
\* shuffle the bool parameter is called and TypeError ends the call;
\* otherwise the dataframe is repartitioned, the start is recorded and
\* NotImplementedError is raised. The record_training_end() after the raise
\* is never reached.
AveragingTrain(sh) ==
    /\ Idle
    /\ kind = "ModelAveragingTrainer"
    /\ calls < MaxCalls
    /\ calls' = calls + 1
    /\ op' = "train"
    /\ shuffle' = sh
    /\ pc' = "raised"
    /\ IF sh
       THEN /\ error' = "TypeError"
            /\ partitions' = 0
            /\ adjustments' = <<>>
            /\ UNCHANGED timing
       ELSE /\ error' = "NotImplementedError"
            /\ partitions' = Repartition(dataset, AveragingPartitions(num_workers))
            /\ adjustments' = <<"repartition">>
            /\ record_training_start
    /\ UNCHANGED <<config, attrs, parallelism_factor, service, parallelism, i, pending,
                   rounds, invocations, allocated, runUpdates, earlierUpdates, result,
                   joined>>

\* A ModelAveragingTrainer and the dataset its caller trains it on.
InitAveraging ==
    /\ kind = "ModelAveragingTrainer"
    /\ num_workers \in 1..MaxWorkers
    /\ num_epoch \in 0..MaxEpoch
    /\ dataset \in 1..MaxPartitions
    /\ stopIsSticky = TRUE
    /\ Constructed

NextAveraging ==
    \/ \E sh \in BOOLEAN : AveragingTrain(sh)
    \/ Tick
    \/ RecordTrainingStart
    \/ RecordTrainingEnd

\* ModelAveragingTrainer.train() and the timing calls, under a moving clock.
SpecAveraging == InitAveraging /\ [][NextAveraging]_vars

\* C15: a ModelAveragingTrainer.train() call with shuffle=False repartitions
\* to num_workers * 10 partitions, records the start (resetting the training
\* time to 0), leaves the recorded end alone, returns nothing and ends with
\* NotImplementedError.
AveragingTrainRaises ==
    [][(op' = "train" /\ calls' = calls + 1 /\ ~shuffle') =>
           /\ pc' = "raised"
           /\ error' = "NotImplementedError"
           /\ partitions' = num_workers * 10
           /\ adjustments' = <<"repartition">>
           /\ training_time_start' = now
           /\ inSession'
           /\ training_time_end' = training_time_end
           /\ training_time' = 0
           /\ result' = None
           /\ returned_model' = NoModel]_vars

\* C15 witness: train() has raised NotImplementedError on a trainer whose
\* training time was nonzero before the call, and the time reads 0.
AveragingTrainRaised ==
    /\ op = "train"
    /\ pc = "raised"
    /\ error = "NotImplementedError"
    /\ lastElapsed > 0
    /\ training_time_end > 0
    /\ training_time_start > training_time_end
    /\ get_training_time = 0

(* --------------------------- SingleTrainer ---------------------------- *)

\* SingleTrainerWorker.train (distkeras.workers): the serialized model after
\* one pass over the partition.
Trained(m) == [bytes |-> m.bytes + 1]

\* allocate_worker(): SingleTrainerWorker(model=self.master_model, ...)
WorkerSeedAtCall == modelAtCall
WorkerSeed == master_model

\* SingleTrainer.train(dataframe, shuffle), up to the loop: with shuffle the
\* bool parameter is called and TypeError ends the call; otherwise the
\* dataframe is coalesced to one partition and the start is recorded.
SingleTrain(sh) ==
    /\ Idle
    /\ kind = "SingleTrainer"
    /\ calls < MaxCalls
    /\ calls' = calls + 1
    /\ op' = "train"
    /\ shuffle' = sh
    /\ seeds' = <<>>
    /\ modelAtCall' = master_model
    /\ returned_model' = NoModel
    /\ i' = 0
    /\ IF sh
       THEN /\ pc' = "raised"
            /\ error' = "TypeError"
            /\ partitions' = 0
            /\ adjustments' = <<>>
            /\ UNCHANGED timing
       ELSE /\ pc' = "single_epoch"
            /\ error' = "none"
            /\ partitions' = Coalesce(dataset, 1)
            /\ adjustments' = <<"coalesce">>
            /\ record_training_start
    /\ UNCHANGED <<config, fields, records, parallelism_factor, service, parallelism,
                   pending, rounds, invocations, allocated, runUpdates, earlierUpdates,
                   result, joined>>

\* One iteration of the loop: a worker is allocated with the current
\* master_model, and the model it returns replaces master_model.
SingleEpoch ==
    /\ pc = "single_epoch"
    /\ LoopContinues(i)
    /\ seeds' = Append(seeds, WorkerSeed)
    /\ master_model' = Trained(WorkerSeed)
    /\ i' = i + 1
    /\ UNCHANGED <<config, loss, worker_optimizer, records, returned_model, modelAtCall,
                   parallelism_factor, service, pc, op, shuffle, parallelism, partitions,
                   pending, rounds, invocations, allocated, adjustments, runUpdates,
                   earlierUpdates, outcome, calls, timing>>

\* The worker raises: collect() raises in train().
SingleEpochRaise ==
    /\ pc = "single_epoch"
    /\ LoopContinues(i)
    /\ pc' = "raised"
    /\ error' = "WorkerError"
    /\ UNCHANGED <<config, attrs, parallelism_factor, service, op, locals, result, joined,
                   calls, timing>>

\* After the loop: the end is recorded and the model is returned.
SingleTrainEnd ==
    /\ pc = "single_epoch"
    /\ ~LoopContinues(i)
    /\ record_training_end
    /\ returned_model' = deserialize_keras_model(master_model)
    /\ pc' = "returned"
    /\ UNCHANGED <<config, fields, records, seeds, modelAtCall, parallelism_factor, service,
                   op, locals, outcome, calls>>

(* ------------------------------ history ------------------------------- *)

\* The records a caller adds, and the lists a caller sets.
Records == {"epoch", "evaluation"}
MaxHistory == 2

RECURSIVE Lists(_)
Lists(n) ==
    IF n = 0 THEN {<<>>}
    ELSE Lists(n - 1) \cup {Append(h, r) : h \in {l \in Lists(n - 1) : Len(l) = n - 1},
                                            r \in Records}

\* list.append
AppendedInFront(h, r) == <<r>> \o h
Appended(h, r) == Append(h, r)

\* add_history(history)
AddHistory(r) ==
    /\ Idle
    /\ Len(history) < MaxHistory
    /\ history' = Appended(history, r)
    /\ op' = "add_history"
    /\ pc' = "returned"
    /\ UNCHANGED <<config, fields, got, had, single, parallelism_factor, service, locals,
                   outcome, calls, timing>>

\* set_history(history)
SetHistory(h) ==
    /\ Idle
    /\ history' = h
    /\ op' = "set_history"
    /\ pc' = "returned"
    /\ UNCHANGED <<config, fields, got, had, single, parallelism_factor, service, locals,
                   outcome, calls, timing>>

\* get_history()
GetHistory ==
    /\ Idle
    /\ got' = history
    /\ op' = "get_history"
    /\ pc' = "returned"
    /\ UNCHANGED <<config, fields, history, had, single, parallelism_factor, service, locals,
                   outcome, calls, timing>>

\* has_history()
HasHistory ==
    /\ Idle
    /\ had' = (Len(history) > 0)
    /\ op' = "has_history"
    /\ pc' = "returned"
    /\ UNCHANGED <<config, fields, history, got, single, parallelism_factor, service, locals,
                   outcome, calls, timing>>

\* A SingleTrainer and the dataset its caller trains it on.
InitSingle ==
    /\ kind = "SingleTrainer"
    /\ num_workers = 1
    /\ num_epoch \in 0..MaxEpoch
    /\ dataset \in 1..MaxPartitions
    /\ stopIsSticky = TRUE
    /\ Constructed

NextSingle ==
    \/ \E sh \in BOOLEAN : SingleTrain(sh)
    \/ SingleEpoch
    \/ SingleEpochRaise
    \/ SingleTrainEnd
    \/ \E r \in Records : AddHistory(r)
    \/ \E h \in Lists(MaxHistory) : SetHistory(h)
    \/ GetHistory
    \/ HasHistory

\* SingleTrainer.train() and the history methods, under a clock that stands
\* still.
SpecSingle == InitSingle /\ [][NextSingle]_vars

\* Every trainer class with a train() of its own or an inherited one.
InitTrainers ==
    /\ kind \in DistributedKinds \cup {"SingleTrainer", "ModelAveragingTrainer"}
    /\ num_workers \in 1..MaxWorkers
    /\ num_epoch \in 0..MaxEpoch
    /\ dataset \in 1..MaxPartitions
    /\ stopIsSticky = TRUE
    /\ Constructed

NextTrainers ==
    \/ Next
    \/ \E sh \in BOOLEAN : SingleTrain(sh)
    \/ SingleEpoch
    \/ SingleEpochRaise
    \/ SingleTrainEnd
    \/ \E sh \in BOOLEAN : AveragingTrain(sh)

\* train() and the service lifecycle of every trainer class, under a clock
\* that stands still.
SpecTrainers == InitTrainers /\ [][NextTrainers]_vars

\* The epochs of a SingleTrainer.train() call thread the model: the first
\* worker is seeded with `first`, every later one with the model the previous
\* epoch returned, and the call returns the last epoch's model, or `first`
\* when there was no epoch.
SingleThreadsFrom(first) ==
    (op = "train" /\ ~shuffle /\ pc \in {"single_epoch", "returned"}) =>
        /\ partitions = 1
        /\ adjustments = <<"coalesce">>
        /\ Len(seeds) = i
        /\ \A k \in 1..Len(seeds) :
               seeds[k] = IF k = 1 THEN first ELSE Trained(seeds[k - 1])
        /\ pc = "returned" =>
               /\ i = num_epoch
               /\ returned_model = deserialize_keras_model(
                      IF seeds = <<>> THEN first ELSE Trained(seeds[Len(seeds)]))

\* C18, as claimed: SingleTrainer.train() with shuffle=False coalesces to one
\* partition and threads the model through its epochs starting from the
\* construction-time model, which is also the result when num_epoch = 0.
SingleThreadsFromConstruction == SingleThreadsFrom(serialize_keras_model(KerasModel))

\* C18, amended: the same, starting from the trainer's master_model at the
\* time of the call.
SingleThreadsFromCurrent == SingleThreadsFrom(modelAtCall)

\* C18 witness: a train() call of two epochs has returned on a trainer whose
\* master_model was no longer the construction-time model when it began.
SecondSingleTrainReturned ==
    /\ op = "train"
    /\ pc = "returned"
    /\ Len(seeds) = 2
    /\ modelAtCall # serialize_keras_model(KerasModel)
    /\ returned_model = deserialize_keras_model(Trained(Trained(modelAtCall)))

IsPrefix(a, b) == Len(a) <= Len(b) /\ SubSeq(b, 1, Len(a)) = a

\* An operation that keeps the history as a prefix, and makes it longer only
\* if it is add_history, which makes it longer by one record.
KeepsHistoryPrefix ==
    /\ IsPrefix(history, history')
    /\ history' # history => op' = "add_history"
    /\ op' = "add_history" => Len(history') = Len(history) + 1

\* C11, as claimed: every operation, set_history included, keeps the history
\* as a prefix, and only add_history makes it longer, by one record.
HistoryAppendOnly == [][KeepsHistoryPrefix]_vars

\* C11, amended: every operation other than set_history does.
HistoryAppendOnlyUnlessSet == [][op' # "set_history" => KeepsHistoryPrefix]_vars

\* C11 witness: a record was added to a history that set_history had
\* replaced since the caller last read it.
AddedAfterSet ==
    /\ op = "add_history"
    /\ got # <<>>
    /\ ~IsPrefix(got, history)
    /\ Len(history) = MaxHistory

\* C12, as claimed: master_model, loss and worker_optimizer always have their
\* construction-time values.
AttributesImmutable ==
    /\ master_model = serialize_keras_model(KerasModel)
    /\ loss = LossArg
    /\ worker_optimizer = OptimizerArg

\* C12, amended: loss and worker_optimizer always have their construction-time
\* values; so has master_model, except in a SingleTrainer, where it is the
\* model returned by the latest epoch of train() (unchanged by a train() call
\* without epochs).
AttributesImmutableButSingleModel ==
    /\ loss = LossArg
    /\ worker_optimizer = OptimizerArg
    /\ kind # "SingleTrainer" => master_model = serialize_keras_model(KerasModel)
    /\ kind = "SingleTrainer" =>
           /\ master_model = IF seeds = <<>> THEN modelAtCall
                             ELSE Trained(seeds[Len(seeds)])
           /\ num_epoch = 0 => master_model = serialize_keras_model(KerasModel)

\* C12 witness: a SingleTrainer.train() call has returned and master_model is
\* the trained model.
SingleTrainReplacedModel ==
    /\ kind = "SingleTrainer"
    /\ op = "train"
    /\ pc = "returned"
    /\ master_model = Trained(serialize_keras_model(KerasModel))
    /\ loss = LossArg
    /\ worker_optimizer = OptimizerArg

====
